---- MODULE Spec2Model ----
(***************************************************************************)
(* Model of src/src/agent/graph.py: the LangGraph workflow                  *)
(*   START -> coordinator -> {fundamental, technical, risk}_analysis        *)
(*         -> wait_for_analyses -> peer_review -> senior_synthesis          *)
(*         -> consensus_check -> (END | peer_review)                        *)
(*                                                                         *)
(* The shared state is a Python dict: it is modelled as a function whose    *)
(* domain is the set of keys that are present, so that state.get(k, d) is   *)
(* Get(state, k, d).  A node returns a partial update (another dict) that   *)
(* the engine merges with the reducers declared in MultiAgentState.         *)
(*                                                                         *)
(* A Python string is modelled as a sequence of parts; a part is a literal  *)
(* of the source (named in ASCII, with the character count of the literal)  *)
(* or an opaque run of n characters returned by an agent or carried by an   *)
(* exception.  The length of a string is the sum of the lengths of its      *)
(* parts, concatenation is \o, and the empty string is << >>.               *)
(***************************************************************************)
EXTENDS Integers, Sequences, FiniteSets, TLC

VARIABLES state, active, pending, runs, calls, invoked

vars == <<state, active, pending, runs, calls, invoked>>

(***************************** bounds **************************************)
\* how far above the quality threshold a synthesis report may reach
MaxExtra == 1
\* executions of one node are counted up to this number (saturating)
MaxCount == 5

(*************************** program constants *****************************)
MaxRevisions == 2
QualityThreshold == 500
END == "__end__"

Roles == {"fundamental", "technical", "risk"}
ExecutorNodes == {"fundamental_analysis", "technical_analysis", "risk_analysis"}
Nodes == {"coordinator", "wait_for_analyses", "peer_review",
          "senior_synthesis", "consensus_check"} \cup ExecutorNodes
Agents == {"fundamental_agent", "technical_agent", "risk_agent", "senior_agent"}

(****************************** strings ************************************)
Lit(name, n) == <<[lit |-> name, len |-> n]>>
Opaque(n) == IF n = 0 THEN << >> ELSE <<[lit |-> "*", len |-> n]>>

RECURSIVE StrLen(_)
StrLen(s) == IF s = << >> THEN 0 ELSE Head(s).len + StrLen(Tail(s))

Truthy(s) == StrLen(s) > 0

RECURSIVE Join(_, _)
Join(sepr, strs) ==
  IF strs = << >> THEN << >>
  ELSE IF Len(strs) = 1 THEN strs[1]
  ELSE strs[1] \o sepr \o Join(sepr, Tail(strs))

HasLit(s, name) == \E i \in 1..Len(s) : s[i].lit = name

(************************* messages and dicts ******************************)
HumanMessage(c) == [type |-> "human", content |-> c]
AIMessage(c) == [type |-> "ai", content |-> c]

Get(d, k, default) == IF k \in DOMAIN d THEN d[k] ELSE default

EmptyDict == [k \in {} |-> TRUE]

\* f"""...{title}...{agent_name}...{timestamp}...{content}...""": the text
\* before {content} and the text after it are fixed for a given title.
format_analysis_output(title, headLen, content) ==
  Lit(title, headLen) \o content \o Lit("analysis_tail", 63)

RECURSIVE ReviewItems(_, _)
ReviewItems(reviews, i) ==
  IF i > Len(reviews) THEN << >>
  ELSE Lit("review_item", 8) \o reviews[i] \o Lit("nl_nl", 2)
       \o ReviewItems(reviews, i + 1)

format_review_output(reviews) ==
  Lit("review_head", 160) \o ReviewItems(reviews, 1) \o Lit("review_tail", 61)

format_final_report(content) ==
  Lit("final_head", 217) \o content \o Lit("final_tail", 186)

(****************************** reducers ***********************************)
PyNone == [py |-> "None"]
PyList(l) == [py |-> "list", v |-> l]
PyStr(s) == [py |-> "str", v |-> s]
PyDict(d) == [py |-> "dict", v |-> d]

\* the new value in place of the concatenation
add_analyses_replace(existing, new) ==
  IF new.py = "str" THEN <<new.v>> ELSE new.v

add_analyses(existing, new) ==
  LET e == IF existing.py = "None" THEN << >> ELSE existing.v
      n == IF new.py = "str" THEN <<new.v>> ELSE new.v
  IN e \o n

\* {**new, **existing}: the existing value wins
add_completion_status_existing_wins(existing, new) ==
  LET e == IF existing.py = "None" THEN EmptyDict ELSE existing.v
  IN [k \in DOMAIN e \cup DOMAIN new |-> IF k \in DOMAIN e THEN e[k] ELSE new[k]]

add_completion_status(existing, new) ==
  LET e == IF existing.py = "None" THEN EmptyDict ELSE existing.v
  IN [k \in DOMAIN e \cup DOMAIN new |-> IF k \in DOMAIN new THEN new[k] ELSE e[k]]

\* langgraph.graph.message.add_messages for messages without ids: append
add_messages(existing, new) == existing \o new

\* agent_feedbacks declared with a list-appending reducer
Reduce_append_feedbacks(k, old, new) ==
  CASE k = "messages" -> add_messages(old, new)
    [] k = "analyses" -> add_analyses(PyList(old), PyList(new))
    [] k = "completion_status" -> add_completion_status(PyDict(old), new)
    [] k = "agent_feedbacks" -> old \o new
    [] OTHER -> new

\* no field but messages has a reducer: the last write replaces the value
Reduce_last_value(k, old, new) ==
  CASE k = "messages" -> add_messages(old, new)
    [] OTHER -> new

\* the Annotated[...] declarations of MultiAgentState: three fields have a
\* reducer, every other field takes the last value written
Reduce(k, old, new) ==
  CASE k = "messages" -> add_messages(old, new)
    [] k = "analyses" -> add_analyses(PyList(old), PyList(new))
    [] k = "completion_status" -> add_completion_status(PyDict(old), new)
    [] OTHER -> new

ApplyUpdate(s, u) ==
  [k \in DOMAIN s \cup DOMAIN u |->
     IF k \notin DOMAIN u THEN s[k]
     ELSE IF k \in DOMAIN s THEN Reduce(k, s[k], u[k])
     ELSE u[k]]

RECURSIVE ApplyAll(_, _)
ApplyAll(s, us) ==
  IF us = << >> THEN s ELSE ApplyAll(ApplyUpdate(s, Head(us)), Tail(us))

(******************************* nodes *************************************)
coordinator_node(s) ==
  LET user_query ==
        IF "original_query" \in DOMAIN s /\ Truthy(s["original_query"])
        THEN s["original_query"]
        ELSE IF "messages" \in DOMAIN s /\ Len(s["messages"]) > 0
        THEN s["messages"][1].content
        ELSE << >>
      start_message ==
        format_analysis_output("coordinator_head", 180,
          Lit("task_content", 5) \o user_query \o Lit("dispatching", 32))
  IN [messages |-> <<AIMessage(start_message)>>,
      original_query |-> user_query,
      workflow_stage |-> "coordination_started",
      completion_status |-> EmptyDict]


\* query = state.get("original_query", ""); if not query and
\* state.get("messages"): query = state["messages"][0].content
executor_query(s) ==
  LET query == Get(s, "original_query", << >>)
  IN IF ~Truthy(query) /\ Len(Get(s, "messages", << >>)) > 0
     THEN s["messages"][1].content
     ELSE query

\* the body shared by the three executor nodes; o is what agent.invoke does:
\* o.ok with a result of o.n characters, or an exception whose str() has
\* o.n characters
executor_node(s, o, role, tagLen, title, headLen) ==
  IF o.ok
  THEN [messages |-> <<AIMessage(format_analysis_output(title, headLen, Opaque(o.n)))>>,
        analyses |-> <<Lit(role, tagLen) \o Opaque(o.n)>>,
        completion_status |-> [k \in {role} |-> TRUE]]
  ELSE [messages |-> <<AIMessage(format_analysis_output(title, headLen,
                         Lit("analysis_error", 11) \o Opaque(o.n)))>>,
        analyses |-> <<Lit(role, tagLen) \o Lit("analysis_failed", 7) \o Opaque(o.n)>>,
        completion_status |-> [k \in {role} |-> FALSE]]

fundamental_task(s) == Lit("fundamental_task", 20) \o executor_query(s)
fundamental_analysis_node(s, o) ==
  executor_node(s, o, "fundamental", 7, "fundamental_report_head", 177)

technical_task(s) == Lit("technical_task", 20) \o executor_query(s)
technical_analysis_node(s, o) ==
  executor_node(s, o, "technical", 6, "technical_report_head", 175)

risk_task(s) == Lit("risk_task", 19) \o executor_query(s)
risk_analysis_node(s, o) ==
  executor_node(s, o, "risk", 6, "risk_report_head", 175)

AllCompleted(s) ==
  LET completion_status == Get(s, "completion_status", EmptyDict)
  IN /\ Get(completion_status, "fundamental", FALSE)
     /\ Get(completion_status, "technical", FALSE)
     /\ Get(completion_status, "risk", FALSE)

\* the waiting branch appends a status message as well
wait_for_analyses_node_wait_msg(s) ==
  IF AllCompleted(s)
  THEN [workflow_stage |-> "all_analyses_completed",
        messages |-> <<AIMessage(Lit("all_analyses_completed_msg", 23))>>]
  ELSE [workflow_stage |-> "waiting_for_analyses",
        messages |-> <<AIMessage(Lit("waiting_for_analyses_msg", 23))>>]

wait_for_analyses_node(s) ==
  IF AllCompleted(s)
  THEN [workflow_stage |-> "all_analyses_completed",
        messages |-> <<AIMessage(Lit("all_analyses_completed_msg", 23))>>]
  ELSE [workflow_stage |-> "waiting_for_analyses"]

\* any(completed) in place of all(completed)
check_analyses_completion_any(s) ==
  LET completion_status == Get(s, "completion_status", EmptyDict)
      completed == <<Get(completion_status, "fundamental", FALSE),
                     Get(completion_status, "technical", FALSE),
                     Get(completion_status, "risk", FALSE)>>
  IN IF \E i \in 1..3 : completed[i] THEN "peer_review" ELSE "wait_for_analyses"

\* completion_status.get(role, True): a missing key counts as completed
check_analyses_completion_default_true(s) ==
  LET completion_status == Get(s, "completion_status", EmptyDict)
      completed == <<Get(completion_status, "fundamental", TRUE),
                     Get(completion_status, "technical", TRUE),
                     Get(completion_status, "risk", TRUE)>>
  IN IF \A i \in 1..3 : completed[i] THEN "peer_review" ELSE "wait_for_analyses"

check_analyses_completion(s) ==
  LET completion_status == Get(s, "completion_status", EmptyDict)
      completed == <<Get(completion_status, "fundamental", FALSE),
                     Get(completion_status, "technical", FALSE),
                     Get(completion_status, "risk", FALSE)>>
  IN IF \A i \in 1..3 : completed[i] THEN "peer_review" ELSE "wait_for_analyses"


RECURSIVE AIContents(_)
AIContents(msgs) ==
  IF msgs = << >> THEN << >>
  ELSE IF Head(msgs).type = "ai"
  THEN <<Head(msgs).content>> \o AIContents(Tail(msgs))
  ELSE AIContents(Tail(msgs))

\* the review reads the AI messages of the transcript, not the analyses
combined_analysis_transcript(s) ==
  Join(Lit("nl_nl", 2), AIContents(Get(s, "messages", << >>)))

combined_analysis(s) == Join(Lit("nl_nl", 2), Get(s, "analyses", << >>))

fundamental_review_task(s) ==
  Lit("fundamental_review_task_head", 43) \o combined_analysis(s)
    \o Lit("fundamental_review_task_tail", 138)
technical_review_task(s) ==
  Lit("technical_review_task_head", 43) \o combined_analysis(s)
    \o Lit("technical_review_task_tail", 144)
risk_review_task(s) ==
  Lit("risk_review_task_head", 43) \o combined_analysis(s)
    \o Lit("risk_review_task_tail", 140)

\* one agent.invoke call: the agent, the task text and whether it returned
Invocation(agent, task, ok) == [agent |-> agent, task |-> task, ok |-> ok]

\* the agent invocations one execution of peer_review_node makes, in order:
\* none when it returns early, else one per try block; o is the sequence
\* of their outcomes
peer_review_invocations(s, o) ==
  IF ~Truthy(combined_analysis(s)) THEN << >>
  ELSE <<Invocation("fundamental_agent", fundamental_review_task(s), o[1].ok),
         Invocation("technical_agent", technical_review_task(s), o[2].ok),
         Invocation("risk_agent", risk_review_task(s), o[3].ok)>>

\* one try/except block of peer_review_node
review_feedback(tag, tagLen, placeholder, placeholderLen, o) ==
  IF o.ok THEN Lit(tag, tagLen) \o Opaque(o.n)
  ELSE Lit(placeholder, placeholderLen)

\* a single try block around the three invocations: the first failure
\* ends the stage
peer_review_feedbacks_one_try(o) ==
  IF ~o[1].ok THEN <<Lit("fundamental_review_failed", 19)>>
  ELSE IF ~o[2].ok
  THEN <<Lit("fundamental_review", 11) \o Opaque(o[1].n),
         Lit("technical_review_failed", 18)>>
  ELSE <<Lit("fundamental_review", 11) \o Opaque(o[1].n),
         Lit("technical_review", 10) \o Opaque(o[2].n),
         review_feedback("risk_review", 10, "risk_review_failed", 18, o[3])>>

\* o is the sequence of the outcomes of the three invocations
peer_review_feedbacks(o) ==
  <<review_feedback("fundamental_review", 11, "fundamental_review_failed", 19, o[1]),
    review_feedback("technical_review", 10, "technical_review_failed", 18, o[2]),
    review_feedback("risk_review", 10, "risk_review_failed", 18, o[3])>>

AgentFeedback(content) ==
  [agent_name |-> "peer_review",
   feedback_type |-> "critique",
   feedback_content |-> content,
   confidence_score |-> "0.8",
   suggested_improvements |-> <<Lit("optimise_from_review", 10)>>]

\* the early return on an empty combined_analysis missing
peer_review_node_no_guard(s, o) ==
  LET formatted_feedback == format_review_output(peer_review_feedbacks(o))
  IN [messages |-> <<AIMessage(formatted_feedback)>>,
      agent_feedbacks |-> <<AgentFeedback(formatted_feedback)>>,
      workflow_stage |-> "peer_review_completed"]

peer_review_node(s, o) ==
  IF ~Truthy(combined_analysis(s))
  THEN [messages |-> <<AIMessage(Lit("no_analysis_to_review", 16))>>,
        workflow_stage |-> "peer_review_completed"]
  ELSE LET formatted_feedback == format_review_output(peer_review_feedbacks(o))
       IN [messages |-> <<AIMessage(formatted_feedback)>>,
           agent_feedbacks |-> <<AgentFeedback(formatted_feedback)>>,
           workflow_stage |-> "peer_review_completed"]

synthesis_task(s) ==
  Lit("synthesis_task_head", 66)
    \o Join(Lit("nl_nl", 2), AIContents(s["messages"]))
    \o Lit("synthesis_task_tail", 202)

\* the except branch without a final_report
senior_synthesis_node_no_error_report(s, o) ==
  IF o.ok
  THEN [messages |-> <<AIMessage(format_final_report(Opaque(o.n)))>>,
        final_report |-> Opaque(o.n),
        consensus_reached |-> TRUE,
        workflow_stage |-> "synthesis_completed"]
  ELSE [messages |-> <<AIMessage(format_final_report(
                         Lit("synthesis_error", 13) \o Opaque(o.n)))>>,
        consensus_reached |-> TRUE,
        workflow_stage |-> "synthesis_failed"]

senior_synthesis_node(s, o) ==
  IF o.ok
  THEN [messages |-> <<AIMessage(format_final_report(Opaque(o.n)))>>,
        final_report |-> Opaque(o.n),
        consensus_reached |-> TRUE,
        workflow_stage |-> "synthesis_completed"]
  ELSE [messages |-> <<AIMessage(format_final_report(
                         Lit("synthesis_error", 13) \o Opaque(o.n)))>>,
        final_report |-> Lit("synthesis_failed", 8) \o Opaque(o.n),
        consensus_reached |-> TRUE,
        workflow_stage |-> "synthesis_failed"]

\* the three results consensus_check_node can return
GateResult(reached, count) ==
  [consensus_reached |-> reached,
   revision_count |-> count,
   workflow_stage |-> "consensus_checked"]

\* revision_count <= 2 in place of revision_count < 2
consensus_check_node_le(s) ==
  LET revision_count == Get(s, "revision_count", 0)
      final_report == Get(s, "final_report", << >>)
  IN IF revision_count <= MaxRevisions
     THEN IF StrLen(final_report) > QualityThreshold
          THEN GateResult(TRUE, revision_count)
          ELSE GateResult(FALSE, revision_count + 1)
     ELSE GateResult(TRUE, revision_count)

\* the ceiling branch missing: only the quality check decides
consensus_check_node_no_ceiling(s) ==
  LET revision_count == Get(s, "revision_count", 0)
      final_report == Get(s, "final_report", << >>)
  IN IF StrLen(final_report) > QualityThreshold
     THEN GateResult(TRUE, revision_count)
     ELSE GateResult(FALSE, revision_count + 1)

\* len(final_report) >= 500 in place of len(final_report) > 500
consensus_check_node_ge(s) ==
  LET revision_count == Get(s, "revision_count", 0)
      final_report == Get(s, "final_report", << >>)
  IN IF revision_count < MaxRevisions
     THEN IF StrLen(final_report) >= QualityThreshold
          THEN GateResult(TRUE, revision_count)
          ELSE GateResult(FALSE, revision_count + 1)
     ELSE GateResult(TRUE, revision_count)

\* the quality check missing: below the ceiling the gate always revises
consensus_check_node_no_quality(s) ==
  LET revision_count == Get(s, "revision_count", 0)
  IN IF revision_count < MaxRevisions
     THEN GateResult(FALSE, revision_count + 1)
     ELSE GateResult(TRUE, revision_count)

consensus_check_node(s) ==
  LET revision_count == Get(s, "revision_count", 0)
      final_report == Get(s, "final_report", << >>)
  IN IF revision_count < MaxRevisions
     THEN IF StrLen(final_report) > QualityThreshold
          THEN GateResult(TRUE, revision_count)
          ELSE GateResult(FALSE, revision_count + 1)
     ELSE GateResult(TRUE, revision_count)

\* the router ends the run whatever the gate decided
check_consensus_routing_always_end(s) == END

\* a run without consensus starts again at the coordinator
check_consensus_routing_restart(s) ==
  IF Get(s, "consensus_reached", FALSE) THEN END ELSE "coordinator"

\* the router sends every run back to peer review
check_consensus_routing_never_end(s) == "peer_review"

check_consensus_routing(s) ==
  IF Get(s, "consensus_reached", FALSE) THEN END ELSE "peer_review"

(************************** initial states *********************************)
UserQuery == Lit("user_query", 18)

\* the input of a run: an original_query, a transcript of one human
\* message, or neither; the reducer channels start empty
InitialState(hasQuery, hasMessage) ==
  LET base == [messages |-> IF hasMessage THEN <<HumanMessage(UserQuery)>> ELSE << >>,
               analyses |-> << >>,
               completion_status |-> EmptyDict]
  IN IF hasQuery THEN ApplyUpdate(base, [original_query |-> UserQuery]) ELSE base

Bump(f, k) == [f EXCEPT ![k] = IF @ < MaxCount THEN @ + 1 ELSE @]

Init ==
  /\ \E hasQuery \in BOOLEAN, hasMessage \in BOOLEAN :
       /\ ~(hasQuery /\ hasMessage)
       /\ state = InitialState(hasQuery, hasMessage)
  /\ active = {"coordinator"}
  /\ pending = << >>
  /\ runs = [n \in Nodes |-> 0]
  /\ calls = [a \in Agents |-> 0]
  /\ invoked = << >>

(****************************** actions ************************************)
Coordinator ==
  /\ active = {"coordinator"}
  /\ state' = ApplyUpdate(state, coordinator_node(state))
  /\ active' = ExecutorNodes
  /\ runs' = Bump(runs, "coordinator")
  /\ invoked' = << >>
  /\ UNCHANGED <<pending, calls>>

\* outcomes of one invocation of an executor agent
ExecOutcomes == [ok : BOOLEAN, n : {1}]

\* the three executors run in the same superstep: each reads the state the
\* coordinator left and its update is held until all three have returned
FundamentalAnalysis ==
  /\ "fundamental_analysis" \in active /\ active \subseteq ExecutorNodes
  /\ \E o \in ExecOutcomes :
       /\ pending' = Append(pending, fundamental_analysis_node(state, o))
       /\ invoked' = <<Invocation("fundamental_agent", fundamental_task(state), o.ok)>>
  /\ active' = active \ {"fundamental_analysis"}
  /\ runs' = Bump(runs, "fundamental_analysis")
  /\ calls' = Bump(calls, "fundamental_agent")
  /\ UNCHANGED state

TechnicalAnalysis ==
  /\ "technical_analysis" \in active /\ active \subseteq ExecutorNodes
  /\ \E o \in ExecOutcomes :
       /\ pending' = Append(pending, technical_analysis_node(state, o))
       /\ invoked' = <<Invocation("technical_agent", technical_task(state), o.ok)>>
  /\ active' = active \ {"technical_analysis"}
  /\ runs' = Bump(runs, "technical_analysis")
  /\ calls' = Bump(calls, "technical_agent")
  /\ UNCHANGED state

RiskAnalysis ==
  /\ "risk_analysis" \in active /\ active \subseteq ExecutorNodes
  /\ \E o \in ExecOutcomes :
       /\ pending' = Append(pending, risk_analysis_node(state, o))
       /\ invoked' = <<Invocation("risk_agent", risk_task(state), o.ok)>>
  /\ active' = active \ {"risk_analysis"}
  /\ runs' = Bump(runs, "risk_analysis")
  /\ calls' = Bump(calls, "risk_agent")
  /\ UNCHANGED state

\* end of the executors' superstep: the engine merges the three updates
\* with the reducers and schedules the target of their three edges
MergeExecutors ==
  /\ active = {} /\ pending # << >>
  /\ state' = ApplyAll(state, pending)
  /\ pending' = << >>
  /\ active' = {"wait_for_analyses"}
  /\ invoked' = << >>
  /\ UNCHANGED <<runs, calls>>

WaitForAnalyses ==
  /\ active = {"wait_for_analyses"}
  /\ state' = ApplyUpdate(state, wait_for_analyses_node(state))
  /\ active' = {check_analyses_completion(state')}
  /\ runs' = Bump(runs, "wait_for_analyses")
  /\ invoked' = << >>
  /\ UNCHANGED <<pending, calls>>

\* outcomes of one invocation of a reviewing agent
ReviewOutcomes == [ok : BOOLEAN, n : {1}]

\* outcomes of the invocation of the senior agent: an empty report, reports
\* above the quality threshold, and exceptions whose error report
\* ("synthesis failed: " + str(e), 8 characters longer than str(e)) has
\* exactly the threshold length or more
SynthesisOutcomes ==
  [ok : {TRUE}, n : {0} \cup ((QualityThreshold + 1) .. (QualityThreshold + MaxExtra))]
  \cup [ok : {FALSE}, n : (QualityThreshold - 8) .. (QualityThreshold - 8 + MaxExtra)]

RECURSIVE BumpAll(_, _)
BumpAll(f, invs) ==
  IF invs = << >> THEN f ELSE BumpAll(Bump(f, Head(invs).agent), Tail(invs))

PeerReview ==
  /\ active = {"peer_review"}
  /\ \E o1 \in ReviewOutcomes, o2 \in ReviewOutcomes, o3 \in ReviewOutcomes :
       /\ state' = ApplyUpdate(state, peer_review_node(state, <<o1, o2, o3>>))
       /\ invoked' = peer_review_invocations(state, <<o1, o2, o3>>)
  /\ active' = {"senior_synthesis"}
  /\ runs' = Bump(runs, "peer_review")
  /\ calls' = BumpAll(calls, invoked')
  /\ UNCHANGED pending

SeniorSynthesis ==
  /\ active = {"senior_synthesis"}
  /\ \E o \in SynthesisOutcomes :
       /\ state' = ApplyUpdate(state, senior_synthesis_node(state, o))
       /\ invoked' = <<Invocation("senior_agent", synthesis_task(state), o.ok)>>
  /\ active' = {"consensus_check"}
  /\ runs' = Bump(runs, "senior_synthesis")
  /\ calls' = Bump(calls, "senior_agent")
  /\ UNCHANGED pending

ConsensusCheck ==
  /\ active = {"consensus_check"}
  /\ state' = ApplyUpdate(state, consensus_check_node(state))
  /\ active' = {check_consensus_routing(state')}
  /\ runs' = Bump(runs, "consensus_check")
  /\ invoked' = << >>
  /\ UNCHANGED <<pending, calls>>

Next ==
  \/ Coordinator
  \/ FundamentalAnalysis
  \/ TechnicalAnalysis
  \/ RiskAnalysis
  \/ MergeExecutors
  \/ WaitForAnalyses
  \/ PeerReview
  \/ SeniorSynthesis
  \/ ConsensusCheck

Spec == Init /\ [][Next]_vars

\* the engine runs every scheduled node: a step that is possible is taken
FairSpec == Spec /\ WF_vars(Next)

Done == active = {END}

(******************* the node functions on any state **********************)
\* The nodes and routers are functions of the state dict alone.  NodeSpec
\* starts the join barrier, the consensus gate and peer review on every
\* dict of a bounded family (keys absent or present, flags true or false,
\* counters below, at and above the ceiling) and runs those nodes with the
\* routing that follows them.
Some(S) == CHOOSE x \in S : TRUE

CompletionDicts == UNION {[D -> BOOLEAN] : D \in SUBSET Roles}

ReportInputs == {<< >>, Opaque(QualityThreshold), Opaque(QualityThreshold + MaxExtra)}

\* each argument is {} for an absent key or {v} for a key with value v
NodeState(cs, rc, fr, cr, an) ==
  LET keys == {"messages", "analyses"}
                \cup (IF cs = {} THEN {} ELSE {"completion_status"})
                \cup (IF rc = {} THEN {} ELSE {"revision_count"})
                \cup (IF fr = {} THEN {} ELSE {"final_report"})
                \cup (IF cr = {} THEN {} ELSE {"consensus_reached"})
  IN [k \in keys |->
        CASE k = "messages" -> << >>
          [] k = "analyses" -> an
          [] k = "completion_status" -> Some(cs)
          [] k = "revision_count" -> Some(rc)
          [] k = "final_report" -> Some(fr)
          [] k = "consensus_reached" -> Some(cr)]

Options(S) == {{}} \cup {{x} : x \in S}

\* the agent_feedbacks entry an earlier review pass left in the state
EarlierFeedback ==
  [agent_feedbacks |->
     <<AgentFeedback(format_review_output(
         peer_review_feedbacks(<<[ok |-> TRUE, n |-> 1], [ok |-> FALSE, n |-> 1],
                                 [ok |-> TRUE, n |-> 1]>>)))>>]

NodeInit ==
  /\ \E cs \in Options(CompletionDicts),
        rc \in Options(0 .. MaxRevisions + 1),
        fr \in Options(ReportInputs),
        cr \in Options(BOOLEAN),
        an \in {<< >>, <<Lit("fundamental", 7) \o Opaque(1)>>},
        fb \in {EmptyDict, EarlierFeedback} :
       state = ApplyUpdate(NodeState(cs, rc, fr, cr, an), fb)
  /\ active \in {{"wait_for_analyses"}, {"consensus_check"}, {"peer_review"}}
  /\ pending = << >>
  /\ runs = [n \in Nodes |-> 0]
  /\ calls = [a \in Agents |-> 0]
  /\ invoked = << >>

NodeNext ==
  \/ WaitForAnalyses
  \/ ConsensusCheck
  \/ PeerReview

NodeSpec == NodeInit /\ [][NodeNext]_vars


(************************ the reducers on any input ************************)
\* ReducerSpec applies add_analyses and add_completion_status to a bounded
\* family of arguments: an existing value that is None, empty or filled,
\* and two writes in a row, each a list, a bare string or a dict.
EntryA == Lit("fundamental", 7) \o Opaque(1)
EntryB == Lit("technical", 6) \o Lit("analysis_failed", 7) \o Opaque(1)
EntryC == Lit("risk", 6) \o Opaque(1)

ExistingAnalyses ==
  {PyNone, PyList(<< >>), PyList(<<EntryC>>), PyList(<<EntryC, EntryA>>)}

IncomingAnalyses ==
  {PyList(<< >>), PyList(<<EntryA>>), PyList(<<EntryB>>), PyList(<<EntryA, EntryB>>),
   PyStr(EntryA), PyStr(EntryB)}

ExistingStatus == {PyNone} \cup {PyDict(d) : d \in CompletionDicts}

\* the dicts the nodes write: the coordinator's empty dict and the
\* one-key dicts of the executors
IncomingStatus ==
  {coordinator_node(InitialState(TRUE, FALSE))["completion_status"]}
  \cup {d \in CompletionDicts : Cardinality(DOMAIN d) = 1}

Writes ==
  {[analyses |-> x] : x \in IncomingAnalyses}
  \cup {[completion_status |-> d] : d \in IncomingStatus}

ReducerInit ==
  /\ \E e \in ExistingAnalyses, c \in ExistingStatus :
       state = [analyses |-> e, completion_status |-> c]
  /\ \E w1 \in Writes, w2 \in Writes : pending = <<w1, w2>>
  /\ invoked = <<[existing |-> state, writes |-> pending]>>
  /\ active = {"reducer"}
  /\ runs = [n \in Nodes |-> 0]
  /\ calls = [a \in Agents |-> 0]

\* the engine applies the next write with the reducer of its field
ApplyWrite ==
  /\ active = {"reducer"} /\ pending # << >>
  /\ LET w == Head(pending) IN
     state' = [k \in DOMAIN state |->
                 IF k \notin DOMAIN w THEN state[k]
                 ELSE IF k = "analyses"
                 THEN PyList(add_analyses(state[k], w[k]))
                 ELSE PyDict(add_completion_status(state[k], w[k]))]
  /\ pending' = Tail(pending)
  /\ UNCHANGED <<active, runs, calls, invoked>>

ReducerNext ==
  \/ ApplyWrite

ReducerSpec == ReducerInit /\ [][ReducerNext]_vars

(****************************** properties *********************************)
Last(q) == q[Len(q)]

RECURSIVE CountLit(_, _)
CountLit(s, name) ==
  IF s = << >> THEN 0
  ELSE (IF Head(s).lit = name THEN 1 ELSE 0) + CountLit(Tail(s), name)

\* an analysis entry carries the failure marker
FailedEntry(e) == HasLit(e, "analysis_failed")

\* all three role keys are present in completion_status with value True
AllThreeTrue(s) ==
  /\ "completion_status" \in DOMAIN s
  /\ \A r \in Roles :
       r \in DOMAIN s["completion_status"] /\ s["completion_status"][r] = TRUE

RevisionCount == Get(state, "revision_count", 0)
FinalReport == Get(state, "final_report", << >>)

\* the analysis log of the state is non-empty
AnalysisLogNonEmpty == Len(Get(state, "analyses", << >>)) > 0

\* C1: the update of an executor whose agent invocation failed holds exactly
\* one analysis entry, tagged with the role and the failure marker, and sets
\* the completion flag of that role to true.
C1_FailedExecutorSetsFlagTrue ==
  \A i \in 1..Len(pending) :
    LET u == pending[i] IN
    (\E j \in 1..Len(u.analyses) : FailedEntry(u.analyses[j])) =>
      /\ Len(u.analyses) = 1
      /\ u.analyses[1][1].lit \in Roles
      /\ DOMAIN u.completion_status = {u.analyses[1][1].lit}
      /\ u.completion_status[u.analyses[1][1].lit] = TRUE

\* C2: every run eventually reaches END with a non-empty final_report,
\* whichever agent invocations fail.
C2_EveryRunEndsWithReport == <>(Done /\ Truthy(FinalReport))

\* C3: whenever peer_review is scheduled, for the first pass or a revision
\* pass, no executor is still scheduled, no executor update is unmerged and
\* the three completion flags are present and true.
C3_ReviewOnlyAfterAllFlagsTrue ==
  "peer_review" \in active =>
    /\ AllThreeTrue(state)
    /\ pending = << >>
    /\ active \cap ExecutorNodes = {}

C3_Witness ==
  /\ active = {"peer_review"}
  /\ runs["peer_review"] = 1
  /\ AllThreeTrue(state)

\* C4: once the join barrier has proceeded only the nodes of the revision
\* loop are scheduled, each of peer_review, senior_synthesis and
\* consensus_check runs at most MaxRevisions + 1 = 3 times, and the third
\* evaluation of the gate ends the run.
C4_RevisionLoopBounded ==
  /\ runs["peer_review"] <= MaxRevisions + 1
  /\ runs["senior_synthesis"] <= MaxRevisions + 1
  /\ runs["consensus_check"] <= MaxRevisions + 1
  /\ runs["peer_review"] > 0 =>
       active \in {{"peer_review"}, {"senior_synthesis"}, {"consensus_check"}, {END}}
  /\ runs["consensus_check"] = MaxRevisions + 1 => Done

C4_Witness ==
  /\ Done
  /\ runs["peer_review"] = MaxRevisions + 1
  /\ runs["consensus_check"] = MaxRevisions + 1

\* C5: revision_count stays within 0..2, and a gate evaluation entered with
\* revision_count = 2 leaves consensus_reached true and revision_count 2.
C5_RevisionCountCapped ==
  /\ [](RevisionCount \in 0 .. MaxRevisions)
  /\ [][(active = {"consensus_check"} /\ RevisionCount = MaxRevisions) =>
          /\ state'["consensus_reached"] = TRUE
          /\ state'["revision_count"] = MaxRevisions]_vars

C5_Witness ==
  /\ Get(state, "workflow_stage", "") = "consensus_checked"
  /\ runs["consensus_check"] = MaxRevisions + 1
  /\ RevisionCount = MaxRevisions
  /\ Truthy(FinalReport) /\ StrLen(FinalReport) <= QualityThreshold

\* C6: the gate's result is determined by revision_count and the length of
\* final_report alone: count >= 2 gives (true, count); else length > 500
\* gives (true, count); else (false, count + 1).  The consensus_reached
\* value in the entry state plays no part.
C6_GateIsFunctionOfCountAndLength ==
  [][active = {"consensus_check"} =>
       LET count == RevisionCount
           long == StrLen(FinalReport) > QualityThreshold
       IN /\ state'["consensus_reached"] = (count >= MaxRevisions \/ long)
          /\ state'["revision_count"] =
               IF count >= MaxRevisions \/ long THEN count ELSE count + 1]_vars

C6_Witness ==
  /\ runs["consensus_check"] = 1
  /\ StrLen(FinalReport) = QualityThreshold
  /\ Get(state, "consensus_reached", TRUE) = FALSE
  /\ RevisionCount = 1

\* C7: check_analyses_completion answers "peer_review" exactly when the
\* three role keys are present and true, and "wait_for_analyses" for every
\* other dict; the join barrier is followed by the node it names.
C7_RouteOnCompletion ==
  /\ [](check_analyses_completion(state) =
          IF AllThreeTrue(state) THEN "peer_review" ELSE "wait_for_analyses")
  /\ [][active = {"wait_for_analyses"} =>
          active' = IF AllThreeTrue(state) THEN {"peer_review"}
                    ELSE {"wait_for_analyses"}]_vars

C7_Witness ==
  /\ runs["wait_for_analyses"] = 1
  /\ active = {"wait_for_analyses"}
  /\ "completion_status" \in DOMAIN state
  /\ DOMAIN state["completion_status"] = {"fundamental", "technical"}
  /\ \A r \in {"fundamental", "technical"} : state["completion_status"][r]

\* C8: a gate evaluation is followed by END exactly when consensus_reached
\* is true in the state it leaves, and by peer_review otherwise; the router
\* sends a state without the key to peer_review.
C8_TerminateIffConsensus ==
  /\ [](check_consensus_routing(state) =
          IF "consensus_reached" \in DOMAIN state /\ state["consensus_reached"]
          THEN END ELSE "peer_review")
  /\ [][active = {"consensus_check"} =>
          /\ (active' = {END}) <=> (Get(state', "consensus_reached", FALSE) = TRUE)
          /\ active' # {END} => active' = {"peer_review"}]_vars

C8_Witness ==
  /\ Get(state, "workflow_stage", "") = "consensus_checked"
  /\ Get(state, "consensus_reached", TRUE) = FALSE
  /\ active = {"peer_review"}

\* C9: a peer review pass over a non-empty analysis log invokes each of the
\* three reviewing agents once, whatever the outcomes; its one new message
\* holds three review items: the reviewer's own output for an invocation
\* that returned, the reviewer's fixed placeholder for one that failed.
ReviewTag == <<"fundamental_review", "technical_review", "risk_review">>
ReviewPlaceholder ==
  <<"fundamental_review_failed", "technical_review_failed", "risk_review_failed">>
ReviewAgent == <<"fundamental_agent", "technical_agent", "risk_agent">>

C9_ThreeIndependentReviews ==
  [][(active = {"peer_review"} /\ AnalysisLogNonEmpty) =>
       LET c == Last(state'["messages"]).content IN
       /\ Len(invoked') = 3
       /\ \A i \in 1..3 :
            /\ invoked'[i].agent = ReviewAgent[i]
            /\ calls'[ReviewAgent[i]] = calls[ReviewAgent[i]] + 1
            /\ CountLit(c, ReviewTag[i]) = (IF invoked'[i].ok THEN 1 ELSE 0)
            /\ CountLit(c, ReviewPlaceholder[i]) = (IF invoked'[i].ok THEN 0 ELSE 1)
       /\ calls'["senior_agent"] = calls["senior_agent"]
       /\ CountLit(c, "review_item") = 3
       /\ Len(state'["messages"]) = Len(state["messages"]) + 1
       /\ state'["workflow_stage"] = "peer_review_completed"
       /\ active' = {"senior_synthesis"}]_vars

C9_Witness ==
  /\ active = {"senior_synthesis"}
  /\ Len(invoked) = 3
  /\ ~invoked[1].ok /\ invoked[2].ok /\ ~invoked[3].ok
  /\ CountLit(Last(state["messages"]).content, "review_item") = 3

\* C10 as stated: every peer review pass appends three records, so after k
\* passes agent_feedbacks holds 3k records.
FeedbackCount == Len(Get(state, "agent_feedbacks", << >>))

C10_ThreeRecordsPerPass == FeedbackCount = 3 * runs["peer_review"]

\* C10 amended: a peer review pass that does not short-circuit sets
\* agent_feedbacks to a list of exactly one record, named "peer_review",
\* whose content is the combined message of that pass; the record of the
\* pass before is replaced, so the list holds one record after any number
\* of passes and none before the first.
C10_OneCombinedRecordReplaced ==
  /\ [](IF runs["peer_review"] = 0 THEN FeedbackCount = 0 ELSE FeedbackCount = 1)
  /\ [][(active = {"peer_review"} /\ AnalysisLogNonEmpty) =>
          /\ Len(state'["agent_feedbacks"]) = 1
          /\ state'["agent_feedbacks"][1].agent_name = "peer_review"
          /\ state'["agent_feedbacks"][1].feedback_content
               = Last(state'["messages"]).content]_vars

C10_Witness ==
  /\ runs["peer_review"] = MaxRevisions + 1
  /\ active = {"senior_synthesis"}
  /\ FeedbackCount = 1

\* C11: peer review entered with an empty analysis log invokes no agent,
\* appends the fixed "no analysis to review" message, sets the stage to
\* peer_review_completed and leaves agent_feedbacks as it was (absent or
\* holding the record of an earlier pass).
C11_EmptyLogShortCircuits ==
  [][(active = {"peer_review"} /\ ~AnalysisLogNonEmpty) =>
       /\ invoked' = << >>
       /\ calls' = calls
       /\ state'["messages"] =
            state["messages"] \o <<AIMessage(Lit("no_analysis_to_review", 16))>>
       /\ state'["workflow_stage"] = "peer_review_completed"
       /\ ("agent_feedbacks" \in DOMAIN state') = ("agent_feedbacks" \in DOMAIN state)
       /\ Get(state', "agent_feedbacks", << >>) = Get(state, "agent_feedbacks", << >>)
       /\ active' = {"senior_synthesis"}]_vars

C11_Witness ==
  /\ runs["peer_review"] = 1
  /\ active = {"senior_synthesis"}
  /\ ~AnalysisLogNonEmpty
  /\ invoked = << >>
  /\ FeedbackCount = 1
  /\ Last(state["messages"]).content = Lit("no_analysis_to_review", 16)

\* the gate is about to evaluate the result of a synthesis that succeeded
GateAfterSuccess ==
  active = {"consensus_check"} /\ state["workflow_stage"] = "synthesis_completed"

\* C12 as stated: after a successful synthesis the gate never takes its
\* not-converged branch: consensus_reached stays true, revision_count is
\* not incremented and peer_review is not scheduled again.
C12_SuccessNeverRevises ==
  [][GateAfterSuccess =>
       /\ state'["consensus_reached"] = TRUE
       /\ state'["revision_count"] = RevisionCount
       /\ active' # {"peer_review"}]_vars

\* C12 amended: after a successful synthesis the gate keeps consensus_reached
\* true, leaves revision_count alone and ends the run when the report is
\* longer than 500 characters or revision_count is already 2; with a report
\* of at most 500 characters and revision_count below 2 it sets
\* consensus_reached false, increments revision_count and schedules
\* peer_review again.
C12_SuccessRevisesShortReport ==
  [][GateAfterSuccess =>
       IF StrLen(FinalReport) > QualityThreshold \/ RevisionCount >= MaxRevisions
       THEN /\ state'["consensus_reached"] = TRUE
            /\ state'["revision_count"] = RevisionCount
            /\ active' = {END}
       ELSE /\ state'["consensus_reached"] = FALSE
            /\ state'["revision_count"] = RevisionCount + 1
            /\ active' = {"peer_review"}]_vars

C12_Witness ==
  /\ Done
  /\ runs["consensus_check"] = 2
  /\ RevisionCount = 1
  /\ ~HasLit(FinalReport, "synthesis_failed")
  /\ StrLen(FinalReport) > QualityThreshold

\* the stages in which a synthesis pass has completed
ReportStage ==
  \/ Get(state, "workflow_stage", "")
       \in {"synthesis_completed", "synthesis_failed", "consensus_checked"}
  \/ Done

\* C13 as stated: in every state whose stage is synthesis complete (success
\* or failure), consensus checked or terminal, final_report is set and
\* non-empty, also when the agent returned the empty text.
C13_ReportNonEmpty ==
  ReportStage => ("final_report" \in DOMAIN state /\ Truthy(state["final_report"]))

\* C13 amended: in every such state final_report is set; it is non-empty
\* when the synthesis failed or the agent returned a non-empty text, and it
\* is the empty string when the agent returned the empty text.
C13_ReportSetAndNonEmptyUnlessAgentTextEmpty ==
  ReportStage =>
    /\ "final_report" \in DOMAIN state
    /\ (Last(state["messages"]).content = format_final_report(<< >>))
         <=> ~Truthy(state["final_report"])

C13_Witness ==
  /\ Done
  /\ RevisionCount = MaxRevisions
  /\ HasLit(FinalReport, "synthesis_failed")
  /\ Truthy(FinalReport)

\* a reducer argument read as a list / as a dict
AsList(x) == IF x.py = "None" THEN << >> ELSE IF x.py = "str" THEN <<x.v>> ELSE x.v
AsDict(x) == IF x.py = "None" THEN EmptyDict ELSE x.v

RECURSIVE CountIn(_, _)
CountIn(q, x) ==
  IF q = << >> THEN 0 ELSE (IF Head(q) = x THEN 1 ELSE 0) + CountIn(Tail(q), x)

\* the entries a write to analyses carries (none for a write to another field)
WriteEntries(w) == IF "analyses" \in DOMAIN w THEN AsList(w["analyses"]) ELSE << >>

ReducerStep == active = {"reducer"} /\ pending # << >>

\* C14: add_analyses returns the existing list (empty for None) followed by
\* the incoming list (one element for a bare string); after two writes in
\* either order every entry occurs as often as in the existing list and
\* the two writes together, so none is lost or duplicated.
C14_MergeAppendList ==
  /\ [][(ReducerStep /\ "analyses" \in DOMAIN Head(pending)) =>
          /\ state'["analyses"].py = "list"
          /\ state'["analyses"].v =
               AsList(state["analyses"]) \o AsList(Head(pending)["analyses"])]_vars
  /\ []((active = {"reducer"} /\ pending = << >>) =>
          LET e == AsList(invoked[1].existing["analyses"])
              w1 == WriteEntries(invoked[1].writes[1])
              w2 == WriteEntries(invoked[1].writes[2])
              r == AsList(state["analyses"])
          IN /\ Len(r) = Len(e) + Len(w1) + Len(w2)
             /\ \A x \in {EntryA, EntryB, EntryC} :
                  CountIn(r, x) = CountIn(e, x) + CountIn(w1, x) + CountIn(w2, x))

C14_Witness ==
  /\ active = {"reducer"} /\ pending = << >>
  /\ invoked[1].existing["analyses"].py = "None"
  /\ invoked[1].writes[1] = [analyses |-> PyStr(EntryB)]
  /\ invoked[1].writes[2] = [analyses |-> PyList(<<EntryA>>)]
  /\ state["analyses"].v = <<EntryB, EntryA>>

\* C15: add_completion_status returns a dict over the union of the two key
\* sets in which the incoming value wins and a key only in existing keeps
\* its value; an empty incoming dict, as the coordinator writes, leaves the
\* dict as it was.
C15_MergeUnionMap ==
  [][(ReducerStep /\ "completion_status" \in DOMAIN Head(pending)) =>
       LET e == AsDict(state["completion_status"])
           w == Head(pending)["completion_status"]
           r == state'["completion_status"].v
       IN /\ DOMAIN r = DOMAIN e \cup DOMAIN w
          /\ \A k \in DOMAIN w : r[k] = w[k]
          /\ \A k \in DOMAIN e \ DOMAIN w : r[k] = e[k]
          /\ DOMAIN w = {} => r = e]_vars

C15_Witness ==
  /\ active = {"reducer"} /\ Len(pending) = 1
  /\ invoked[1].existing["completion_status"].py = "dict"
  /\ invoked[1].existing["completion_status"].v
       = [k \in {"fundamental", "technical"} |-> k = "fundamental"]
  /\ invoked[1].writes[1] = [completion_status |-> [k \in {"technical"} |-> TRUE]]
  /\ state["completion_status"].v = [k \in {"fundamental", "technical"} |-> TRUE]

\* the orders in which the held updates can be merged
MergeOrders(n) == {p \in [1..n -> 1..n] : \A i, j \in 1..n : p[i] = p[j] => i = j}
Reordered(us, p) == [i \in 1..Len(us) |-> us[p[i]]]
Entries(q) == {q[i] : i \in 1..Len(q)}

\* C16: an executor reads the state the coordinator left, with no analysis
\* entry and no completion flag of a sibling, and leaves it as it is; the
\* merge of the three held updates gives the same completion_status, the
\* same set of analyses entries and the same number of them for every
\* order of the updates.
C16_MergeOrderIndependent ==
  /\ [][(active # {} /\ active \subseteq ExecutorNodes) =>
          /\ Get(state, "analyses", << >>) = << >>
          /\ Get(state, "completion_status", EmptyDict) = EmptyDict
          /\ state' = state
          /\ Len(pending') = Len(pending) + 1
          /\ Len(Last(pending')["analyses"]) = 1
          /\ Cardinality(DOMAIN Last(pending')["completion_status"]) = 1
          /\ Len(invoked') = 1
          /\ invoked'[1].task \in {fundamental_task(state), technical_task(state),
                                   risk_task(state)}]_vars
  /\ [][(active = {} /\ pending # << >>) =>
          /\ Len(pending) = 3
          /\ active' = {"wait_for_analyses"}
          /\ \A p \in MergeOrders(Len(pending)) :
               LET alt == ApplyAll(state, Reordered(pending, p)) IN
               /\ alt["completion_status"] = state'["completion_status"]
               /\ Entries(alt["analyses"]) = Entries(state'["analyses"])
               /\ Len(alt["analyses"]) = Len(state'["analyses"])
          /\ Entries(state'["analyses"]) =
               {pending[i]["analyses"][1] : i \in 1..Len(pending)}
          /\ Cardinality(Entries(state'["analyses"])) = 3
          /\ DOMAIN state'["completion_status"] = Roles]_vars

C16_Witness ==
  /\ active = {"wait_for_analyses"} /\ runs["wait_for_analyses"] = 0
  /\ Len(state["analyses"]) = 3
  /\ HasLit(state["analyses"][1], "risk")
  /\ HasLit(state["analyses"][2], "fundamental")
  /\ HasLit(state["analyses"][3], "technical")
  /\ AllThreeTrue(state)

\* the first synthesis returned a report above the quality threshold
FirstSynthesisLong ==
  /\ runs["senior_synthesis"] = 1
  /\ Get(state, "workflow_stage", "") = "synthesis_completed"
  /\ StrLen(FinalReport) > QualityThreshold

\* C17: when the three executors succeeded and the first synthesis returned
\* a report of more than 500 characters, the join barrier and peer review
\* have run once, and the gate that follows keeps revision_count 0, sets
\* consensus_reached and ends the run.
C17_HappyPath ==
  [][(active = {"consensus_check"} /\ FirstSynthesisLong) =>
       /\ AllThreeTrue(state)
       /\ \A i \in 1..Len(state["analyses"]) : ~FailedEntry(state["analyses"][i])
       /\ runs["wait_for_analyses"] = 1
       /\ runs["peer_review"] = 1
       /\ runs'["senior_synthesis"] = 1
       /\ runs'["consensus_check"] = 1
       /\ Get(state', "revision_count", 0) = 0
       /\ "consensus_reached" \in DOMAIN state' /\ state'["consensus_reached"] = TRUE
       /\ active' = {END}]_vars

C17_Witness ==
  /\ Done
  /\ runs["coordinator"] = 1 /\ runs["wait_for_analyses"] = 1
  /\ runs["peer_review"] = 1 /\ runs["senior_synthesis"] = 1
  /\ runs["consensus_check"] = 1
  /\ RevisionCount = 0
  /\ Get(state, "consensus_reached", FALSE) = TRUE
  /\ StrLen(FinalReport) > QualityThreshold
  /\ ~HasLit(FinalReport, "synthesis_failed")

\* the run was started with no original_query and an empty transcript: the
\* coordinator then stores the empty string as original_query
NoInputRun ==
  IF runs["coordinator"] = 0
  THEN ~Truthy(Get(state, "original_query", << >>)) /\ Get(state, "messages", << >>) = << >>
  ELSE ~Truthy(Get(state, "original_query", << >>))

\* C18: a run started with no original_query and an empty transcript stops
\* with an error before any agent is invoked, so that no executor, review
\* or synthesis takes place in it.
C18_NoInputRunStops ==
  NoInputRun =>
    /\ \A a \in Agents : calls[a] = 0
    /\ \A n \in Nodes \ {"coordinator"} : runs[n] = 0
    /\ ~Done

\* the fields of the state other than those of F are present or absent as
\* before a step and hold the same values
SameExcept(F) ==
  \A k \in (DOMAIN state \cup DOMAIN state') \ F :
    k \in DOMAIN state /\ k \in DOMAIN state' /\ state'[k] = state[k]

\* C19: an evaluation of the join barrier node, in either branch, changes no
\* field of the state but workflow_stage.
C19_BarrierChangesOnlyStage ==
  [][active = {"wait_for_analyses"} => SameExcept({"workflow_stage"})]_vars

\* C19 (amended): an evaluation of the join barrier node changes no field
\* but workflow_stage and messages; in the waiting branch messages are
\* unchanged too and a second evaluation leaves the whole state as it is,
\* in the proceed branch one fixed status message is appended.
C19_BarrierAppendsMessageOnProceed ==
  [][active = {"wait_for_analyses"} =>
       /\ SameExcept({"workflow_stage", "messages"})
       /\ IF AllThreeTrue(state)
          THEN /\ state'["workflow_stage"] = "all_analyses_completed"
               /\ state'["messages"] = state["messages"]
                    \o <<AIMessage(Lit("all_analyses_completed_msg", 23))>>
               /\ active' = {"peer_review"}
          ELSE /\ state'["workflow_stage"] = "waiting_for_analyses"
               /\ state'["messages"] = state["messages"]
               /\ active' = {"wait_for_analyses"}
               /\ ApplyUpdate(state', wait_for_analyses_node(state')) = state'
               /\ runs["wait_for_analyses"] > 0 => state' = state]_vars

C19_Witness ==
  /\ active = {"wait_for_analyses"}
  /\ runs["wait_for_analyses"] = 3
  /\ state["workflow_stage"] = "waiting_for_analyses"
  /\ Len(state["analyses"]) = 3

\* C20: the gate that follows a failed synthesis ends the run, so that no
\* further peer review or synthesis takes place.
C20_SynthesisFailureEndsRun ==
  [][(active = {"consensus_check"}
        /\ Get(state, "workflow_stage", "") = "synthesis_failed") =>
       active' = {END}]_vars

\* the fixed text of what the last pass produced: of its review feedback
\* and of its final report; an opaque part stands for any text and the
\* blank lines between items occur in every joined text
PassMaterial ==
  LET fb == Get(state, "agent_feedbacks", << >>)
      texts == (IF fb = << >> THEN << >> ELSE fb[1].feedback_content) \o FinalReport
  IN {texts[i] : i \in 1..Len(texts)}
       \ {p \in {texts[i] : i \in 1..Len(texts)} : p.lit \in {"*", "nl_nl"}}

RevisionPass == active = {"peer_review"} /\ runs["peer_review"] >= 1

\* C21: on a revision pass the task given to each reviewer includes text of
\* the pass before, its review feedback or its final report.
C21_RevisionReviewsUpdatedContent ==
  [][RevisionPass =>
       \A i \in 1..Len(invoked') :
         \E j \in 1..Len(invoked'[i].task) : invoked'[i].task[j] \in PassMaterial]_vars

\* C21 (amended): analyses is not written after the join barrier, a revision
\* pass gives each reviewer the task over the same analyses as the pass
\* before, with no text of that pass in it; the synthesis that follows is
\* given the transcript with the feedback and the report of every pass made.
C21_RevisionReviewsSameAnalyses ==
  /\ [][runs["peer_review"] >= 1 =>
          state'["analyses"] = state["analyses"]]_vars
  /\ [][RevisionPass =>
          /\ PassMaterial # {}
          /\ Len(invoked') = 3
          /\ invoked'[1].task = fundamental_review_task(state)
          /\ invoked'[2].task = technical_review_task(state)
          /\ invoked'[3].task = risk_review_task(state)
          /\ \A i \in 1..3 :
               /\ \A j \in 1..Len(invoked'[i].task) : invoked'[i].task[j] \notin PassMaterial
               /\ CountLit(invoked'[i].task, "nl_nl") = Len(state["analyses"]) - 1
               /\ \A k \in 1..Len(state["analyses"]) :
                    \E j \in 1..Len(invoked'[i].task) :
                      invoked'[i].task[j] = state["analyses"][k][1]]_vars
  /\ [][(active = {"senior_synthesis"} /\ runs["senior_synthesis"] >= 1) =>
          /\ CountLit(invoked'[1].task, "review_head") = runs["peer_review"]
          /\ CountLit(invoked'[1].task, "final_head") = runs["senior_synthesis"]]_vars

C21_Witness ==
  /\ active = {"senior_synthesis"}
  /\ runs["peer_review"] = 2 /\ runs["senior_synthesis"] = 1
  /\ RevisionCount = 1
  /\ Len(invoked) = 3
  /\ invoked[1].task = fundamental_review_task(state)

\* the nodes before the revision loop
EntryNodes == {"coordinator"} \cup ExecutorNodes

\* the join barrier is being evaluated or has been
BarrierReached == active = {"wait_for_analyses"} \/ runs["wait_for_analyses"] >= 1

\* the entries of analyses tagged for a role
TaggedFor(r) ==
  {i \in 1..Len(Get(state, "analyses", << >>)) : state["analyses"][i][1].lit = r}

\* C22: the coordinator and each executor run at most once, and once in a
\* run that ends; once peer review has started no step runs them or the
\* join barrier again; from the first evaluation of the join barrier on,
\* analyses holds three entries, one tagged for each role, and neither
\* analyses nor completion_status changes.
C22_EntryNodesRunOnce ==
  /\ [](\A n \in EntryNodes : runs[n] <= 1)
  /\ []((Done \/ BarrierReached) => \A n \in EntryNodes : runs[n] = 1)
  /\ [](BarrierReached =>
          /\ Len(state["analyses"]) = 3
          /\ \A r \in Roles : Cardinality(TaggedFor(r)) = 1)
  /\ [][BarrierReached =>
          /\ state'["analyses"] = state["analyses"]
          /\ state'["completion_status"] = state["completion_status"]
          /\ \A n \in EntryNodes : runs'[n] = runs[n]
          /\ active' \cap EntryNodes = {}]_vars
  /\ [][runs["peer_review"] >= 1 =>
          /\ runs'["wait_for_analyses"] = runs["wait_for_analyses"]
          /\ active' # {"wait_for_analyses"}]_vars

C22_Witness ==
  /\ Done
  /\ runs["peer_review"] = MaxRevisions + 1
  /\ \A n \in EntryNodes : runs[n] = 1
  /\ runs["wait_for_analyses"] = 1
  /\ Len(state["analyses"]) = 3
  /\ \A r \in Roles : Cardinality(TaggedFor(r)) = 1
====
